---- MODULE Spec2Model ----
(***************************************************************************)
(* MIMAGA feature selection (src/ITMO_FS/filters/multivariate/mimaga.py):  *)
(* the MIM redundancy ranker, the fitness evaluator, the genetic operators *)
(* and the adaptive genetic search, as a state machine.                    *)
(*                                                                         *)
(* Python list objects live in `heap`; a population is a sequence of       *)
(* references into it, so that two entries naming the same list object     *)
(* share its bits, as they do in the interpreter.                          *)
(*                                                                         *)
(* Fitness values are exact rationals with denominator FitDen, the rate    *)
(* constants k1..k4 exact rationals with denominator KDen; a probability   *)
(* is a pair <<numerator, denominator>>.  The classifier (fit, predict,    *)
(* f1_score) is the function `fitness` of the set of selected positions.   *)
(***************************************************************************)
EXTENDS Integers, Sequences, FiniteSets, TLC

VARIABLES
    entry,            \* which function the caller invoked; "search" is the search
                      \* stage of mimaga_filter (lines 242-244) run on its own:
                      \* _initial_population, then _aga_filter on its result
    self,             \* the MIMAGA object's attributes (set by __init__)
    fitness,          \* f1 score of the classifier per selected feature set, a
                      \* fixed function whose values are drawn when first needed
    arg,              \* argument of a directly called pure function
    ret,              \* what the call returned: [err, val]
    pc,               \* position in the running call
    heap,             \* list objects: reference -> bits
    population,       \* _aga_filter: population (references)
    code_fitness,     \* _aga_filter: code_fitness, pairs <<reference, f>>
    highly_fitted,    \* _aga_filter: highly_fitted, pairs <<reference, f>>
    best_individual,  \* _aga_filter: best_individual (a reference)
    f_max,            \* _aga_filter: f_max
    f_avg,            \* _aga_filter: f_avg as <<f_sum, len(population)>>
    f_par,            \* _aga_filter: f_par
    counter,          \* _aga_filter: counter
    new_population,   \* cross_and_mutate: new_population (references)
    max_parent_f,     \* cross_and_mutate: max_parent_f
    cross_left,       \* cross_and_mutate: crossover events still to run
    mutate_left,      \* cross_and_mutate: mutation events still to run
    evalCount,        \* history: calls of population_fitness made by the search
    prev_f_max,       \* history: f_max before the latest population_fitness call
    scored_best,      \* history: bits of code_fitness[0][0] when it was scored
    pool_bits         \* history: bits of the masks handed to cross_and_mutate

vars == <<entry, self, fitness, arg, ret, pc, heap, population, code_fitness,
          highly_fitted, best_individual, f_max, f_avg, f_par, counter,
          new_population, max_parent_f, cross_left, mutate_left, evalCount,
          prev_f_max, scored_best, pool_bits>>

-----------------------------------------------------------------------------
(* Bounds of the explored inputs *)

MaxMimSize == 2
MaxPopSize == 1
MaxIter == 2
MaxFeatures == 3
MaxMI == 2
MaxArgPop == 2
MaxPopulation == 6

\* fitness values are v / FitDen for v in 0..FitDen (an f1 score lies in [0, 1])
FitDen == 2
\* rate constants are k / KDen
KDen == 2

FitVals == 0..FitDen

Min(a, b) == IF a <= b THEN a ELSE b
Max(a, b) == IF a >= b THEN a ELSE b

\* int(a / b) of Python for b > 0: truncation toward zero
TruncDiv(a, b) == IF a >= 0 THEN a \div b ELSE -((-a) \div b)

RECURSIVE Pow2(_)
Pow2(n) == IF n <= 0 THEN 1 ELSE 2 * Pow2(n - 1)

NoRet == [err |-> "none", val |-> <<>>]
Raise(e) == [err |-> e, val |-> <<>>]
Return(v) == [err |-> "none", val |-> v]

\* s[a:b] of a Python list, 0-based, half-open, clamped to the list
Slice(s, a, b) ==
    LET hi == Min(b, Len(s))
    IN  IF hi <= a THEN <<>> ELSE [i \in 1..(hi - a) |-> s[a + i]]

-----------------------------------------------------------------------------
(* RedundancyRanker: MIMAGA._mim_filter *)

\* the pairs (mi_vector[i], i) in Python's tuple order
PairLess(mi, i, j) == mi[i + 1] < mi[j + 1] \/ (mi[i + 1] = mi[j + 1] /\ i < j)

RECURSIVE SortedIndexes(_, _)
SortedIndexes(mi, left) ==
    IF left = {} THEN <<>>
    ELSE LET m == CHOOSE i \in left : \A j \in left \ {i} : PairLess(mi, i, j)
         IN  <<m>> \o SortedIndexes(mi, left \ {m})

\* _mim_filter(genes), with genes_mutual_information(genes) = mi_vector.
\* The slice bound is read from the attribute `mim_size`; __init__ sets
\* `_mim_size`, so the lookup is decided by the object's attributes.
mim_filter(slf, mi_vector) ==
    LET g_num == Len(mi_vector)
        ranked == SortedIndexes(mi_vector, 0..(g_num - 1))
    IN  IF "mim_size" \notin DOMAIN slf THEN Raise("AttributeError")
        ELSE Return(Slice(ranked, 0, slf["mim_size"]))

\* index_map = dict(zip(range(_mim_size), filtered_indexes))
IndexMap(slf, filtered_indexes) ==
    [i \in 0..(Min(slf["_mim_size"], Len(filtered_indexes)) - 1) |-> filtered_indexes[i + 1]]

-----------------------------------------------------------------------------
(* ChromosomeCodec and FitnessEvaluator *)

\* decode_genes: the rows mapping[i] of the positions i with chromosome[i] = 1;
\* mapping[i] of a position the dict does not hold raises KeyError
decode_genes(mapping, chromosome) ==
    LET ones == {i \in 0..(Len(chromosome) - 1) : chromosome[i + 1] = 1}
    IN  IF \E i \in ones : i \notin DOMAIN mapping THEN Raise("KeyError")
        ELSE Return({mapping[i] : i \in ones})

\* the loop of population_fitness: the (code, f) pairs, in population order,
\* of the individuals that decode to at least one feature
Scored(mapping, pop, hp, fit) ==
    LET all == [i \in 1..Len(pop) |->
                   LET rows == decode_genes(mapping, hp[pop[i]]).val
                   IN  <<pop[i], IF rows = {} THEN -1 ELSE fit[rows]>>]
        Kept(x) == x[2] >= 0
    IN  SelectSeq(all, Kept)

\* list.sort(key = fitness, reverse = True): stable, descending.  The entry at
\* index i moves behind every entry of higher fitness and every earlier entry
\* of equal fitness.
SortDesc(s) ==
    LET Place(i) == Cardinality({j \in 1..Len(s) : s[j][2] > s[i][2]})
                    + Cardinality({j \in 1..(i - 1) : s[j][2] = s[i][2]}) + 1
    IN  [k \in 1..Len(s) |-> s[CHOOSE i \in 1..Len(s) : Place(i) = k]]

SumF(s) ==
    LET Sum[i \in 0..Len(s)] == IF i = 0 THEN 0 ELSE Sum[i - 1] + s[i][2]
    IN  Sum[Len(s)]

\* the divisor of f_avg
AvgDivisor(pop, scored) == Len(pop)

\* variant: an empty code_fitness reported as a top fitness of 0
TopFitness_default(code) == IF code = <<>> THEN Return(0) ELSE Return(code[1][2])

\* f_max = code_fitness[0][1]
TopFitness(code) == IF code = <<>> THEN Raise("IndexError") ELSE Return(code[1][2])

\* population_fitness: (code_fitness, f_max, f_avg), f_avg = <<f_sum, divisor>>
population_fitness(mapping, pop, hp, fit) ==
    IF \E i \in 1..Len(pop) : decode_genes(mapping, hp[pop[i]]).err # "none"
    THEN Raise("KeyError")
    ELSE LET scored == Scored(mapping, pop, hp, fit)
             code == SortDesc(scored)
             top == TopFitness(code)
         IN  IF top.err # "none" THEN Raise(top.err)
             ELSE Return([code_fitness |-> code, f_max |-> top.val,
                          f_avg |-> <<SumF(scored), AvgDivisor(pop, scored)>>])

-----------------------------------------------------------------------------
(* GeneticOperators *)

\* crossover(x, y) at random_point; random.randint(1, len(x) - 1) raises
\* ValueError on an empty range
CrossoverPoints(x) == 1..(Len(x) - 1)

crossover(x, y, random_point) ==
    << Slice(x, 0, random_point) \o Slice(y, random_point, Len(x)),
       Slice(y, 0, random_point) \o Slice(x, random_point, Len(x)) >>

\* mutation(x) at random_point: the bits the list x holds after line 106
mutation(x, random_point) ==
    [x EXCEPT ![random_point + 1] = (x[random_point + 1] - 1) % 2]

\* mutant = mutation(population[...][0]) on the heap: line 106 assigns into the
\* list it was given and line 107 returns that same list object
mutation_call(hp, ref, random_point) ==
    [heap |-> [hp EXCEPT ![ref] = mutation(hp[ref], random_point)], mutant |-> ref]

\* base_high * (f_max - f_par) / (f_max - f_avg), the three fitness values
\* given over a common denominator; the result has a positive denominator
Ratio(base_high, fmax, favg, fpar) ==
    LET n == base_high * (fmax - fpar)
        d == KDen * (fmax - favg)
    IN  IF d < 0 THEN <<-n, -d>> ELSE <<n, d>>

\* variant: the comparison f_par > f_avg in place of f_par >= f_avg
adaptive_probability_strict(base_high, base_low, fmax, favg, fpar) ==
    IF fpar > favg
    THEN IF fmax # favg THEN Ratio(base_high, fmax, favg, fpar) ELSE <<1, 1>>
    ELSE <<base_low, KDen>>

\* _crossover_probability / _mutation_probability share this shape
adaptive_probability(base_high, base_low, fmax, favg, fpar) ==
    IF fpar >= favg
    THEN IF fmax # favg THEN Ratio(base_high, fmax, favg, fpar) ELSE <<1, 1>>
    ELSE <<base_low, KDen>>

crossover_probability(slf, fmax, favg, fpar) ==
    adaptive_probability(slf["_k1"], slf["_k2"], fmax, favg, fpar)

mutation_probability(slf, fmax, favg, fpar) ==
    adaptive_probability(slf["_k3"], slf["_k4"], fmax, favg, fpar)

\* int(p * n)
EventCount(p, n) == TruncDiv(p[1] * n, p[2])

-----------------------------------------------------------------------------
(* MIMAGA._initial_population *)

\* variant: 2 ** self._mim_size, which no mim_size makes raise
RandHigh_power(mim_size) == Return(Pow2(mim_size))

\* the upper end of random.randint(1, 2 << self._mim_size - 1), inclusive;
\* a negative shift count raises ValueError
RandHigh(mim_size) ==
    IF mim_size - 1 < 0 THEN Raise("ValueError") ELSE Return(2 * Pow2(mim_size - 1))

RECURSIVE Bin(_)
Bin(n) == IF n < 2 THEN <<n>> ELSE Bin(n \div 2) \o <<n % 2>>

\* list(map(int, bin(n)[2:].zfill(width)))
individual_code(n, width) ==
    LET b == Bin(n)
    IN  [i \in 1..(width - Len(b)) |-> 0] \o b

-----------------------------------------------------------------------------
(* The inputs explored *)

MkSelf(m, p, it, ft, k) ==
    [x \in {"_mim_size", "_pop_size", "_max_iter", "_f_target",
            "_k1", "_k2", "_k3", "_k4"} |->
        CASE x = "_mim_size" -> m
          [] x = "_pop_size" -> p
          [] x = "_max_iter" -> it
          [] x = "_f_target" -> ft
          [] x = "_k1" -> k[1]
          [] x = "_k2" -> k[2]
          [] x = "_k3" -> k[3]
          [] x = "_k4" -> k[4]]

\* (k1, k2, k3, k4) settings, in units of 1 / KDen
KChoices == { <<0, 0, 0, 0>>, <<0, 0, 0, KDen>>, <<0, 1, 0, 1>>,
              <<KDen, 0, 1, 0>>, <<1, KDen, KDen, 0>> }

\* f_target settings, in units of 1 / FitDen
TargetChoices == {1, FitDen, FitDen + 1}

SearchConfigs ==
    { MkSelf(m, p, it, ft, k) : m \in 0..MaxMimSize, p \in 0..MaxPopSize,
                                it \in 0..MaxIter, ft \in TargetChoices, k \in KChoices }

Identity(n) == [i \in 0..(n - 1) |-> i]

Masks(n) == [1..n -> {0, 1}]

\* populations handed to population_fitness directly
ArgPopulations == UNION { [1..n -> Masks(m)] : n \in 1..MaxArgPop, m \in 1..MaxMimSize }

Decoded(mapping, masks) ==
    { decode_genes(mapping, c).val : c \in { d \in masks : decode_genes(mapping, d).err = "none" } } \ {{}}

Range(f) == { f[x] : x \in DOMAIN f }

Idle ==
    /\ ret = NoRet
    /\ heap = <<>> /\ population = <<>> /\ code_fitness = <<>> /\ highly_fitted = <<>>
    /\ best_individual = 0 /\ f_max = 0 /\ f_avg = <<0, 1>> /\ f_par = 0 /\ counter = 0
    /\ new_population = <<>> /\ max_parent_f = 0 /\ cross_left = 0 /\ mutate_left = 0
    /\ evalCount = 0 /\ prev_f_max = 0 /\ scored_best = <<>> /\ pool_bits = <<>>

InitSearch ==
    /\ entry \in {"mimaga_filter", "search"}
    /\ self \in SearchConfigs
    /\ fitness = <<>>
    /\ arg = Identity(self["_mim_size"])
    /\ pc = IF entry = "mimaga_filter" THEN "start" ELSE "initpop"
    /\ Idle

InitMim ==
    /\ entry = "_mim_filter"
    /\ \E g \in 1..MaxFeatures :
          /\ arg \in [1..g -> 0..MaxMI]
          /\ \E m \in 1..g : self = MkSelf(m, 1, 1, FitDen, <<0, 0, 0, 0>>)
    /\ fitness = <<>>
    /\ pc = "start"
    /\ Idle

InitFitness ==
    /\ entry = "population_fitness"
    /\ arg \in ArgPopulations
    /\ self = MkSelf(Len(arg[1]), Len(arg), 1, FitDen, <<0, 0, 0, 0>>)
    /\ fitness \in [Decoded(Identity(Len(arg[1])), Range(arg)) -> FitVals]
    /\ pc = "start"
    /\ Idle

InitProbability ==
    /\ entry \in {"_crossover_probability", "_mutation_probability"}
    /\ arg \in [{"f_max", "f_avg", "f_par"} -> FitVals]
    /\ \E k \in [1..4 -> 0..KDen] : self = MkSelf(1, 1, 1, FitDen, k)
    /\ fitness = <<>>
    /\ pc = "start"
    /\ Idle

Init == InitSearch \/ InitMim \/ InitFitness \/ InitProbability

-----------------------------------------------------------------------------
(* Direct calls of the pure functions *)

Finish(r) ==
    /\ ret' = r
    /\ pc' = IF r.err = "none" THEN "returned" ELSE "raised"

SearchVars == <<heap, population, code_fitness, highly_fitted, best_individual, f_max,
                f_avg, f_par, counter, new_population, max_parent_f, cross_left,
                mutate_left, evalCount, prev_f_max, scored_best, pool_bits>>

CallMimFilter ==
    /\ pc = "start" /\ entry = "_mim_filter"
    /\ Finish(mim_filter(self, arg))
    /\ UNCHANGED <<entry, self, fitness, arg, SearchVars>>

CallPopulationFitness ==
    /\ pc = "start" /\ entry = "population_fitness"
    /\ Finish(population_fitness(Identity(self["_mim_size"]), [i \in 1..Len(arg) |-> i],
                                 arg, fitness))
    /\ UNCHANGED <<entry, self, fitness, arg, SearchVars>>

CallCrossoverProbability ==
    /\ pc = "start" /\ entry = "_crossover_probability"
    /\ Finish(Return(crossover_probability(self, arg["f_max"], arg["f_avg"], arg["f_par"])))
    /\ UNCHANGED <<entry, self, fitness, arg, SearchVars>>

CallMutationProbability ==
    /\ pc = "start" /\ entry = "_mutation_probability"
    /\ Finish(Return(mutation_probability(self, arg["f_max"], arg["f_avg"], arg["f_par"])))
    /\ UNCHANGED <<entry, self, fitness, arg, SearchVars>>

-----------------------------------------------------------------------------
(* Orchestrator and AdaptiveSearch *)

Refs(code) == [i \in 1..Len(code) |-> code[i][1]]

\* max_size as mimaga_filter passes it: self._pop_size * 2
MaxSize(slf) == slf["_pop_size"] * 2

\* the while condition of _aga_filter
Continue(slf, cnt, fmax) == cnt < slf["_max_iter"] /\ fmax < slf["_f_target"]

\* mimaga_filter up to index_map: the split, _mim_filter on the train set
\* (whose mutual-information vector is mi_vector), the index map
MimagaFilter ==
    /\ pc = "start" /\ entry = "mimaga_filter"
    /\ \E g \in 1..MaxFeatures : \E mi_vector \in [1..g -> 0..MaxMI] :
          LET filtered_indexes == mim_filter(self, mi_vector)
          IN  IF filtered_indexes.err # "none"
              THEN /\ Finish(filtered_indexes)
                   /\ UNCHANGED arg
              ELSE /\ arg' = IndexMap(self, filtered_indexes.val)
                   /\ pc' = "initpop"
                   /\ UNCHANGED ret
    /\ UNCHANGED <<entry, self, fitness, SearchVars>>

\* _initial_population, then the call of _aga_filter with its result
InitialPopulation ==
    /\ pc = "initpop"
    /\ LET high == RandHigh(self["_mim_size"])
           codes == IF self["_pop_size"] <= 0 THEN {<<>>}
                    ELSE IF high.err # "none" THEN {}
                    ELSE { [i \in 1..self["_pop_size"] |->
                               individual_code(nums[i], self["_mim_size"])] :
                           nums \in [1..self["_pop_size"] -> 1..high.val] }
       IN  IF codes = {}
           THEN /\ Finish(high)
                /\ UNCHANGED <<heap, population>>
           ELSE /\ heap' \in codes
                /\ population' = [i \in 1..Len(heap') |-> i]
                /\ pc' = "aga"
                /\ UNCHANGED ret
    /\ UNCHANGED <<entry, self, fitness, arg, code_fitness, highly_fitted,
                   best_individual, f_max, f_avg, f_par, counter, new_population,
                   max_parent_f, cross_left, mutate_left, evalCount, prev_f_max,
                   scored_best, pool_bits>>

\* _aga_filter, lines 209-211
AgaEnter ==
    /\ pc = "aga"
    /\ IF population = <<>>
       THEN /\ Finish(Raise("IndexError"))
            /\ UNCHANGED <<heap, best_individual>>
       ELSE /\ heap' = Append(heap, [i \in 1..Len(heap[population[1]]) |-> 1])
            /\ best_individual' = Len(heap) + 1
            /\ pc' = "while"
            /\ UNCHANGED ret
    /\ f_par' = 0 /\ f_max' = 0 /\ counter' = 0
    /\ UNCHANGED <<entry, self, fitness, arg, population, code_fitness, highly_fitted,
                   f_avg, new_population, max_parent_f, cross_left, mutate_left,
                   evalCount, prev_f_max, scored_best, pool_bits>>

\* one pass of lines 213-224 and the head of cross_and_mutate (117-120)
Evaluate ==
    /\ pc = "while"
    /\ Continue(self, counter, f_max)
    /\ evalCount' = evalCount + 1
    /\ prev_f_max' = f_max
    /\ LET masks == { heap[population[i]] : i \in 1..Len(population) }
           unseen == Decoded(arg, masks) \ DOMAIN fitness
       IN  \E scores \in [unseen -> FitVals] :
             LET fit == IF \E c \in masks : decode_genes(arg, c).err # "none"
                        THEN fitness ELSE scores @@ fitness
             IN  \E r \in {population_fitness(arg, population, heap, fit)} :
                 IF r.err # "none" \/ r.val.code_fitness = <<>>
                 THEN /\ Finish(IF r.err # "none" THEN r ELSE Raise("IndexError"))
                      /\ UNCHANGED <<fitness, population, code_fitness, highly_fitted,
                                     best_individual, f_max, f_avg, new_population,
                                     max_parent_f, cross_left, mutate_left, scored_best,
                                     pool_bits>>
                 ELSE LET fmax == r.val.f_max
                          favg == r.val.f_avg
                          cut == Len(r.val.code_fitness) > MaxSize(self)
                          code == IF cut THEN SubSeq(r.val.code_fitness, 1, MaxSize(self))
                                  ELSE r.val.code_fitness
                          Fit(x) == 2 * x[2] >= fmax
                          high == SelectSeq(code, Fit)
                          pool == IF high = <<>> THEN code ELSE high
                          n == favg[2]
                          p_c == crossover_probability(self, fmax * n, favg[1], f_par * n)
                          p_m == mutation_probability(self, fmax * n, favg[1], f_par * n)
                      IN  /\ fitness' = fit
                          /\ code_fitness' = code
                          /\ population' = IF cut THEN Refs(code) ELSE population
                          /\ f_max' = fmax
                          /\ f_avg' = favg
                          /\ highly_fitted' = pool
                          /\ best_individual' = code[1][1]
                          /\ scored_best' = heap[code[1][1]]
                          /\ pool_bits' = [i \in 1..Len(pool) |-> heap[pool[i][1]]]
                          /\ cross_left' = EventCount(p_c, Len(pool))
                          /\ mutate_left' = EventCount(p_m, Len(pool))
                          /\ max_parent_f' = 0
                          /\ new_population' = Refs(pool)
                          /\ pc' = "breed"
                          /\ UNCHANGED ret
    /\ UNCHANGED <<entry, self, arg, heap, f_par, counter>>

\* one pass of the crossover loop of cross_and_mutate (121-126)
\* (a run is followed while the population under construction holds at most
\* MaxPopulation entries)
CrossEvent ==
    /\ pc = "breed" /\ cross_left > 0
    /\ Len(population) + Len(new_population) + 2 <= MaxPopulation
    /\ \E i, j \in 1..Len(highly_fitted) :
          LET parent1 == heap[highly_fitted[i][1]]
              parent2 == heap[highly_fitted[j][1]]
          IN  IF CrossoverPoints(parent1) = {}
              THEN /\ Finish(Raise("ValueError"))
                   /\ UNCHANGED <<heap, new_population, max_parent_f, cross_left>>
              ELSE \E random_point \in CrossoverPoints(parent1) :
                      LET children == crossover(parent1, parent2, random_point)
                      IN  /\ heap' = heap \o children
                          /\ new_population' = new_population \o <<Len(heap) + 1, Len(heap) + 2>>
                          /\ max_parent_f' = Max(max_parent_f,
                                                 Max(highly_fitted[i][2], highly_fitted[j][2]))
                          /\ cross_left' = cross_left - 1
                          /\ UNCHANGED <<ret, pc>>
    /\ UNCHANGED <<entry, self, fitness, arg, population, code_fitness, highly_fitted,
                   best_individual, f_max, f_avg, f_par, counter, mutate_left, evalCount,
                   prev_f_max, scored_best, pool_bits>>

\* one pass of the mutation loop of cross_and_mutate (127-129)
MutateEvent ==
    /\ pc = "breed" /\ cross_left <= 0 /\ mutate_left > 0
    /\ Len(population) + Len(new_population) + 1 <= MaxPopulation
    /\ \E i \in 1..Len(highly_fitted) :
          LET ref == highly_fitted[i][1]
          IN  IF Len(heap[ref]) = 0
              THEN /\ Finish(Raise("ValueError"))
                   /\ UNCHANGED <<heap, new_population, mutate_left>>
              ELSE \E random_point \in 0..(Len(heap[ref]) - 1) :
                      LET m == mutation_call(heap, ref, random_point)
                      IN  /\ heap' = m.heap
                          /\ new_population' = Append(new_population, m.mutant)
                          /\ mutate_left' = mutate_left - 1
                          /\ UNCHANGED <<ret, pc>>
    /\ UNCHANGED <<entry, self, fitness, arg, population, code_fitness, highly_fitted,
                   best_individual, f_max, f_avg, f_par, counter, max_parent_f, cross_left,
                   evalCount, prev_f_max, scored_best, pool_bits>>

\* the return of cross_and_mutate and lines 225-227
EndBreed ==
    /\ pc = "breed" /\ cross_left <= 0 /\ mutate_left <= 0
    /\ population' = population \o new_population
    /\ f_par' = max_parent_f
    /\ counter' = counter + 1
    /\ pc' = "while"
    /\ UNCHANGED <<entry, self, fitness, arg, ret, heap, code_fitness, highly_fitted,
                   best_individual, f_max, f_avg, new_population, max_parent_f,
                   cross_left, mutate_left, evalCount, prev_f_max, scored_best, pool_bits>>

\* line 228, and for mimaga_filter lines 245-246
AgaReturn ==
    /\ pc = "while"
    /\ ~Continue(self, counter, f_max)
    /\ IF entry = "mimaga_filter"
       THEN LET result_genes == decode_genes(arg, heap[best_individual])
            IN  IF result_genes.err # "none" THEN Finish(result_genes)
                ELSE Finish(Return(<<result_genes.val, f_max>>))
       ELSE Finish(Return(<<heap[best_individual], f_max>>))
    /\ UNCHANGED <<entry, self, fitness, arg, SearchVars>>

Next ==
    \/ CallMimFilter
    \/ CallPopulationFitness
    \/ CallCrossoverProbability
    \/ CallMutationProbability
    \/ MimagaFilter
    \/ InitialPopulation
    \/ AgaEnter
    \/ Evaluate
    \/ CrossEvent
    \/ MutateEvent
    \/ EndBreed
    \/ AgaReturn

Spec == Init /\ [][Next]_vars

-----------------------------------------------------------------------------
(* Properties *)

Searching == entry \in {"mimaga_filter", "search"}
Stopped == pc \in {"returned", "raised"}
MaxIterations == self["_max_iter"]
TargetFitness == self["_f_target"]

\* _aga_filter got past line 211 and reached its loop
LoopEntered == Searching /\ best_individual # 0

\* the latest call of population_fitness by the search raised
EvaluateFailed ==
    Searching /\ pc = "raised" /\ evalCount > counter /\ ret.err \in {"KeyError", "IndexError"}

AllZero(masks) == \A c \in masks : \A i \in 1..Len(c) : c[i] = 0

PopulationMasks == { heap[population[i]] : i \in 1..Len(population) }

\* C1: when _aga_filter returns after at least one evaluation, the mask it
\* returns has the bits that were scored as the top of the last evaluated
\* generation, and the fitness it returns is that generation's f_max.
C1_ReturnedMaskWasScored ==
    (entry = "search" /\ pc = "returned" /\ evalCount >= 1)
        => (ret.val[1] = scored_best /\ ret.val[2] = f_max)

\* C2: a search in which no evaluation fails makes at most max_iter
\* evaluations, makes none after a generation with f_max >= f_target, and
\* once in its loop stops only with counter = max_iter or f_max >= f_target.
C2_LoopStopsOnItsPredicateOnly ==
    Searching =>
        /\ evalCount <= MaxIterations
        /\ (pc = "breed" /\ evalCount >= 2) => prev_f_max < TargetFitness
        /\ (LoopEntered /\ Stopped /\ ~EvaluateFailed)
              => (counter = MaxIterations \/ f_max >= TargetFitness)

\* C3: every chromosome of every population of a search is a binary mask of
\* length mim_size.
C3_MasksHaveMimSize ==
    Searching =>
        \A ref \in Range(population) \cup Range(new_population) :
            /\ Len(heap[ref]) = self["_mim_size"]
            /\ \A b \in 1..Len(heap[ref]) : heap[ref][b] \in {0, 1}

\* C4: while cross_and_mutate runs, every mask of the scored population it
\* was given keeps the bits it had at the call, and the first n entries of
\* the population it builds are those masks.
C4_BreedKeepsInputMasks ==
    (Searching /\ pc = "breed") =>
        /\ \A i \in 1..Len(highly_fitted) : heap[highly_fitted[i][1]] = pool_bits[i]
        /\ \A i \in 1..Len(highly_fitted) : heap[new_population[i]] = pool_bits[i]

\* C5: population_fitness of a population with a non-zero mask returns the
\* scored individuals sorted by fitness descending, f_max the fitness of the
\* first, and f_avg the sum of the fitnesses over the number of scored
\* individuals; the all-zero masks are not among the scored.
C5_AverageOverScored ==
    (entry = "population_fitness" /\ pc # "start" /\ ~AllZero(Range(arg))) =>
        /\ pc = "returned"
        /\ LET code == ret.val.code_fitness
               favg == ret.val.f_avg
           IN  /\ \A i \in 1..Len(code) : ~AllZero({arg[code[i][1]]})
               /\ Len(code) = Cardinality({i \in 1..Len(arg) : ~AllZero({arg[i]})})
               /\ \A i \in 1..(Len(code) - 1) : code[i][2] >= code[i + 1][2]
               /\ ret.val.f_max = code[1][2]
               /\ favg[1] * Len(code) = SumF(code) * favg[2]

\* a direct call of population_fitness on all-zero masks raises IndexError
C6_CallRaises ==
    (entry = "population_fitness" /\ pc # "start" /\ AllZero(Range(arg)))
        => (pc = "raised" /\ ret = Raise("IndexError"))

\* the search's evaluation of an all-zero population raises IndexError
C6_SearchRaises ==
    (Searching /\ pc = "while" /\ Continue(self, counter, f_max) /\ AllZero(PopulationMasks))
        => (pc' = "raised" /\ ret' = Raise("IndexError"))

\* a search that raised takes no further step
C6_NoRetry == (Searching /\ pc = "raised") => UNCHANGED vars

\* C6: population_fitness of a population whose masks are all zero raises and
\* returns no f_max; in the search the error ends the run: nothing is
\* returned and no further step is taken.
C6_AllZeroPopulationRaises ==
    /\ []C6_CallRaises
    /\ [][C6_SearchRaises]_vars
    /\ [][C6_NoRetry]_vars

C6_Witness ==
    /\ entry = "search" /\ pc = "raised" /\ ret.err = "IndexError"
    /\ evalCount >= 2 /\ AllZero(PopulationMasks)

\* C7: with pop_size = 0 or mim_size = 0 the orchestrator never reaches the
\* loop of the search: no evaluation is made, nothing is returned, and the
\* run is on its way to an error or has raised one.
C7_ZeroConfigRaisesBeforeLoop ==
    (Searching /\ (self["_pop_size"] = 0 \/ self["_mim_size"] = 0)) =>
        /\ evalCount = 0
        /\ ret.val = <<>>
        /\ \/ pc \in {"start", "initpop", "raised"}
           \/ pc = "aga" /\ population = <<>>

C7_Witness ==
    /\ Searching /\ pc = "raised" /\ evalCount = 0
    /\ self["_pop_size"] = 0 \/ self["_mim_size"] = 0

\* C8: _mim_filter returns mim_size distinct feature indices, the lowest in
\* the order of (score, index), in that order.
C8_MimFilterReturnsRanking ==
    (entry = "_mim_filter" /\ pc # "start") =>
        /\ pc = "returned"
        /\ Len(ret.val) = self["_mim_size"]
        /\ \A i \in 1..Len(ret.val) : ret.val[i] \in 0..(Len(arg) - 1)
        /\ \A i, j \in 1..Len(ret.val) : i < j => PairLess(arg, ret.val[i], ret.val[j])
        /\ \A i \in 1..Len(ret.val) : \A f \in 0..(Len(arg) - 1) :
              f \in Range(ret.val) \/ PairLess(arg, ret.val[i], f)

C9_High == IF entry = "_crossover_probability" THEN self["_k1"] ELSE self["_k3"]
C9_Low == IF entry = "_crossover_probability" THEN self["_k2"] ELSE self["_k4"]

\* C9: the adaptive probabilities are exactly 1 when fmax = favg and
\* fref >= favg, exactly the low constant (k2, k4) when fref < favg, and
\* otherwise the high constant (k1, k3) times (fmax - fref) / (fmax - favg).

C9_AdaptiveProbability ==
    (entry \in {"_crossover_probability", "_mutation_probability"} /\ pc # "start") =>
        /\ pc = "returned"
        /\ ret.val[2] > 0
        /\ (arg["f_max"] = arg["f_avg"] /\ arg["f_par"] >= arg["f_avg"])
              => ret.val[1] = ret.val[2]
        /\ arg["f_par"] < arg["f_avg"]
              => ret.val[1] * KDen = C9_Low * ret.val[2]
        /\ (arg["f_max"] # arg["f_avg"] /\ arg["f_par"] >= arg["f_avg"])
              => ret.val[1] * KDen * (arg["f_max"] - arg["f_avg"])
                    = C9_High * (arg["f_max"] - arg["f_par"]) * ret.val[2]

C9_Witness ==
    /\ entry = "_mutation_probability" /\ pc = "returned"
    /\ arg["f_max"] > arg["f_par"] /\ arg["f_par"] > arg["f_avg"]
    /\ self["_k3"] = 1 /\ self["_k4"] = KDen /\ self["_k1"] = 0
    /\ ret.val[1] > 0 /\ ret.val[1] < ret.val[2]

\* C10: the f_max of successive evaluations of one search never decreases.
C10_MaxFitnessNeverDecreases ==
    (Searching /\ pc = "breed" /\ evalCount >= 2) => f_max >= prev_f_max

====
